---- MODULE Spec2Model ----
(***************************************************************************)
(* Client-side notification reconciliation engine of the Proxy Market      *)
(* dashboard (src/src/context/NotificationContext.tsx).                    *)
(*                                                                         *)
(* The provider keeps three React states (notifications, seenOrderIds,     *)
(* lastOrderStatuses), two refs that mirror the last two after each        *)
(* commit, and three localStorage entries.  State updates are dispatched   *)
(* as updater functions; the variables notifications, seenOrderIds and     *)
(* lastOrderStatuses hold the value of each state hook after the updates   *)
(* dispatched so far, while the refs and the closure captured by           *)
(* markAsRead hold the values of the last commit (action Render).  The     *)
(* localStorage writes made inside an updater happen when React runs the   *)
(* updater: at once when no other update is queued, else at the next       *)
(* render; the empty-feed branch writes outside any updater, at once.      *)
(*                                                                         *)
(* Seven specifications follow the same engine: Spec (pages of two         *)
(* orders), SpecDeep (one order, more passes), SpecPoll (SpecDeep under    *)
(* the fairness of the polling timer), SpecOverlap (two fetches pending    *)
(* at once), SpecLabels (status labels in other spellings), SpecLoad (a    *)
(* later session, started over stored entries that may be missing or       *)
(* corrupt) and SpecCap (pages longer than the cap of 30 notifications).   *)
(*                                                                         *)
(* Not modelled: isLoading, and the descriptive payload customerName,      *)
(* orderNumber and location, which are copied from the order record and    *)
(* read by no decision of the engine.                                      *)
(***************************************************************************)
EXTENDS Integers, Sequences, FiniteSets, TLC

(***************************************************************************)
(* Bounds of the model.                                                    *)
(***************************************************************************)
NumOrders == 2
MaxNow == 2
MaxInFlight == 1
MaxBatch == 2
MaxPasses == 2
NumDeepOrders == 1
MaxOverlap == 2
MaxOverlapPasses == 2
MaxLoadPasses == 2
MaxLabelPasses == 2
MaxDeepPasses == 4
MaxCapOrders == 32
MaxCapPasses == 2

(***************************************************************************)
(* Program constants.                                                      *)
(***************************************************************************)
MaxNotifications == 30

Undefined == "undefined"
NoDate == 0

(***************************************************************************)
(* JavaScript string helpers, computed on the characters of the string.    *)
(***************************************************************************)
UpperChars == "ABCDEFGHIJKLMNOPQRSTUVWXYZÉ"
LowerChars == "abcdefghijklmnopqrstuvwxyzé"

CharAt(s, i) == SubSeq(s, i, i)

LowerChar(c) ==
    IF \E i \in 1..Len(UpperChars) : CharAt(UpperChars, i) = c
    THEN CharAt(LowerChars, CHOOSE i \in 1..Len(UpperChars) : CharAt(UpperChars, i) = c)
    ELSE c

RECURSIVE toLowerCase(_)
toLowerCase(s) ==
    IF Len(s) = 0 THEN ""
    ELSE LowerChar(CharAt(s, 1)) \o toLowerCase(SubSeq(s, 2, Len(s)))

includes(s, sub) ==
    \E i \in 1..(Len(s) - Len(sub) + 1) : SubSeq(s, i, i + Len(sub) - 1) = sub

\* currentStatus.replace(/\s/g, '_')
RECURSIVE replaceSpaces(_)
replaceSpaces(s) ==
    IF Len(s) = 0 THEN ""
    ELSE (IF CharAt(s, 1) = " " THEN "_" ELSE CharAt(s, 1))
         \o replaceSpaces(SubSeq(s, 2, Len(s)))

Digits == "0123456789"

\* String(n) for a natural number n
RECURSIVE String(_)
String(n) ==
    IF n < 10 THEN CharAt(Digits, n + 1)
    ELSE String(n \div 10) \o CharAt(Digits, (n % 10) + 1)

(***************************************************************************)
(* The order feed: what orderService.getOrders(1) resolves to.             *)
(***************************************************************************)
OrderIds == 1..NumOrders

\* Status labels of the API (OrderStatus of orderService.ts).
StatusTexts == {"En attente", "En livraison", "Livré"}

\* created_at of an order: order i was placed at date i.
CreatedAt(id) == id

\* updated_at of an order: absent while the order waits, then the date of the
\* change to its present status.
UpdatedAt(status_text) ==
    IF status_text = "En attente" THEN NoDate
    ELSE IF status_text = "En livraison" THEN 2
    ELSE 3

Orders ==
    { [ id |-> id, status_text |-> s, updated_at |-> UpdatedAt(s) ] :
        id \in OrderIds, s \in StatusTexts }

\* A page lists each order at most once, by ascending id, or one order twice.
RECURSIVE FeedsUpTo(_)
FeedsUpTo(n) ==
    IF n = 0 THEN {<< >>}
    ELSE LET shorter == FeedsUpTo(n - 1)
         IN  shorter \cup
             { Append(f, o) : f \in shorter, o \in {x \in Orders : x.id = n} }

Feeds == FeedsUpTo(NumOrders) \cup { << o, o >> : o \in Orders }

\* The same statuses under other spellings of the label.
LabelTexts == {"En attente", "LIVRÉE", "Delivered"}

\* The pages that list order 1 alone, under one of these labels.
LabelFeeds ==
    { << >> } \cup
    { << [ id |-> 1, status_text |-> s, updated_at |-> UpdatedAt(s) ] >> : s \in LabelTexts }

\* The pages that list only the first NumDeepOrders orders.
DeepFeeds == { f \in Feeds : \A i \in DOMAIN f : f[i].id <= NumDeepOrders }

(***************************************************************************)
(* Status classification and message templates.                           *)
(***************************************************************************)
IsDeliveredStatus(currentStatus) ==
    LET statusLower == toLowerCase(currentStatus)
    IN  includes(statusLower, "livré") \/ includes(statusLower, "delivered")

\* Faulty variant: the label is compared as it is written.
getNotificationTypeCaseSensitive(currentStatus) ==
    IF includes(currentStatus, "livré") \/ includes(currentStatus, "delivered")
    THEN "delivered" ELSE "status_change"

getNotificationType(currentStatus) ==
    IF IsDeliveredStatus(currentStatus) THEN "delivered" ELSE "status_change"

generateStatusMessage(currentStatus, previousStatus) ==
    LET statusLower == toLowerCase(currentStatus)
    IN  IF includes(statusLower, "livré") \/ includes(statusLower, "delivered")
          THEN "a été livrée avec succès"
        ELSE IF includes(statusLower, "préparation") \/ includes(statusLower, "preparing")
          THEN "est en cours de préparation"
        ELSE IF includes(statusLower, "livraison") \/ includes(statusLower, "delivering")
          THEN "est en cours de livraison"
        ELSE IF includes(statusLower, "annulé") \/ includes(statusLower, "cancelled")
          THEN "a été annulée"
        ELSE IF includes(statusLower, "attente") /\ includes(statusLower, "paiement")
          THEN "est en attente de paiement"
        ELSE IF previousStatus # Undefined
          THEN "est passée à \"" \o currentStatus \o "\""
        ELSE "a changé de statut"

\* The classification and the id fragment of each label, computed once.
isDeliveredOf == [s \in StatusTexts \cup LabelTexts |-> IsDeliveredStatus(s)]
typeOf == [s \in StatusTexts \cup LabelTexts |-> getNotificationType(s)]
idFragmentOf == [s \in StatusTexts \cup LabelTexts |-> replaceSpaces(s)]

(***************************************************************************)
(* The updater that refreshNotifications passes to setNotifications.       *)
(***************************************************************************)
\* Map.get(orderId)
MapGet(map, key) == IF key \in DOMAIN map THEN map[key] ELSE Undefined

\* a || b on dates
OrDate(a, b) == IF a # NoDate THEN a ELSE b

\* prev.find(pred): the first unread new_order notification of the order
ExistingNewOrderIndexes(prev, order) ==
    { i \in DOMAIN prev :
        prev[i].orderId = order.id /\ prev[i].type = "new_order" /\ ~prev[i].isRead }

Min(S) == CHOOSE x \in S : \A y \in S : x <= y

\* What the body of orders.forEach pushes to newNotifications for one order.
OrderNotifications(order, prev, currentSeen, currentStatuses, t) ==
    LET orderId == String(order.id)
        currentStatus == order.status_text
        isNewOrder == orderId \notin currentSeen
        previousStatus == MapGet(currentStatuses, orderId)
        hasStatusChanged ==
            ~isNewOrder /\ previousStatus # Undefined /\ previousStatus # currentStatus
        existing == ExistingNewOrderIndexes(prev, order)
        hasExistingNewOrderNotif == existing # {}
        notificationType == typeOf[currentStatus]
        isDelivered == isDeliveredOf[currentStatus]
        created ==
            IF isNewOrder /\ ~hasExistingNewOrderNotif
            THEN IF isDelivered
                 THEN << [ id |-> "new-" \o orderId \o "-" \o String(t),
                           orderId |-> order.id,
                           type |-> "delivered",
                           message |-> "a été livrée avec succès",
                           status |-> currentStatus,
                           previousStatus |-> Undefined,
                           timestamp |-> OrDate(order.updated_at, CreatedAt(order.id)),
                           isRead |-> FALSE,
                           isNew |-> TRUE ] >>
                 ELSE << [ id |-> "new-" \o orderId \o "-" \o String(t),
                           orderId |-> order.id,
                           type |-> "new_order",
                           message |-> "a passé une nouvelle commande",
                           status |-> currentStatus,
                           previousStatus |-> Undefined,
                           timestamp |-> CreatedAt(order.id),
                           isRead |-> FALSE,
                           isNew |-> TRUE ] >>
            ELSE << >>
        upgraded ==
            IF existing # {} /\ isDelivered /\ prev[Min(existing)].status # currentStatus
            THEN LET existingNotif == prev[Min(existing)]
                 IN  << [ existingNotif EXCEPT
                            !.type = "delivered",
                            !.message = "a été livrée avec succès",
                            !.status = currentStatus,
                            !.timestamp = OrDate(order.updated_at, existingNotif.timestamp) ] >>
            ELSE << >>
        hasSameStatusNotif ==
            \E i \in DOMAIN prev :
                prev[i].orderId = order.id /\ prev[i].status = currentStatus /\ ~prev[i].isRead
        changed ==
            IF hasStatusChanged /\ ~hasSameStatusNotif
            THEN << [ id |-> "status-" \o orderId \o "-" \o idFragmentOf[currentStatus]
                               \o "-" \o String(t),
                      orderId |-> order.id,
                      type |-> notificationType,
                      message |-> generateStatusMessage(currentStatus, previousStatus),
                      status |-> currentStatus,
                      previousStatus |-> previousStatus,
                      timestamp |-> OrDate(order.updated_at, t),
                      isRead |-> FALSE,
                      isNew |-> TRUE ] >>
            ELSE << >>
    IN  created \o upgraded \o changed

\* newNotifications after orders.forEach
RECURSIVE NewNotifications(_, _, _, _, _)
NewNotifications(orders, prev, currentSeen, currentStatuses, t) ==
    IF orders = << >> THEN << >>
    ELSE OrderNotifications(Head(orders), prev, currentSeen, currentStatuses, t)
         \o NewNotifications(Tail(orders), prev, currentSeen, currentStatuses, t)

\* updatedStatuses after orders.forEach
UpdatedStatuses(orders) ==
    [ key \in { String(orders[i].id) : i \in DOMAIN orders } |->
        LET i == CHOOSE j \in DOMAIN orders :
                    String(orders[j].id) = key
                    /\ \A k \in DOMAIN orders : String(orders[k].id) = key => k <= j
        IN  orders[i].status_text ]

\* Faulty variant: a carried-forward notification is rebuilt as a fresh, unread one.
CarryForwardResetsRead(notif, orders) == [ notif EXCEPT !.isRead = FALSE, !.isNew = TRUE ]

\* Faulty variant: carried-forward notifications are never upgraded.
CarryForwardNoUpgrade(notif, orders) == notif

\* The carried-forward notification of an order still in the feed.
CarryForward(notif, orders) ==
    LET order == orders[Min({ i \in DOMAIN orders : String(orders[i].id) = String(notif.orderId) })]
        currentStatus == order.status_text
        isDelivered == isDeliveredOf[currentStatus]
    IN  IF notif.type = "new_order" /\ isDelivered /\ notif.status # currentStatus
        THEN [ notif EXCEPT !.type = "delivered",
                            !.message = "a été livrée avec succès",
                            !.status = currentStatus ]
        ELSE notif

\* Faulty variant: the notifications of the orders that left the feed are kept.
UpdatedPrevKeepsAll(prev, orders) == prev

RECURSIVE UpdatedPrev(_, _)
UpdatedPrev(prev, orders) ==
    IF prev = << >> THEN << >>
    ELSE LET notif == Head(prev)
             currentOrderIds == { String(orders[i].id) : i \in DOMAIN orders }
             rest == UpdatedPrev(Tail(prev), orders)
         IN  IF String(notif.orderId) \in currentOrderIds
             THEN << CarryForward(notif, orders) >> \o rest
             ELSE rest

\* The deduplication key of a notification.
DedupeKey(notif) ==
    IF notif.type = "new_order" \/ notif.type = "delivered"
    THEN String(notif.orderId) \o "-" \o notif.type
    ELSE String(notif.orderId) \o "-" \o notif.type \o "-" \o notif.status

\* Faulty variant: the duplicates are kept.
UniqueNotificationsKeepsAll(combined, seenKeys) == combined

\* uniqueNotifications: the first notification of each key, in the order of combined.
RECURSIVE UniqueNotifications(_, _)
UniqueNotifications(combined, seenKeys) ==
    IF combined = << >> THEN << >>
    ELSE LET key == DedupeKey(Head(combined))
         IN  IF key \in seenKeys
             THEN UniqueNotifications(Tail(combined), seenKeys)
             ELSE << Head(combined) >>
                  \o UniqueNotifications(Tail(combined), seenKeys \cup {key})

\* Faulty variant: the list is truncated without being sorted.
SortKeepsOrder(list) == list

\* uniqueNotifications.sort((a, b) => b.timestamp.getTime() - a.timestamp.getTime()):
\* newest first, entries of equal timestamp in their former order (the sort is stable).
SortByTimestamp(list) ==
    LET rank == [ i \in DOMAIN list |->
                    Cardinality({ j \in DOMAIN list :
                                    \/ list[j].timestamp > list[i].timestamp
                                    \/ list[j].timestamp = list[i].timestamp /\ j < i }) + 1 ]
    IN  [ p \in DOMAIN list |-> list[CHOOSE i \in DOMAIN list : rank[i] = p] ]

\* sorted.slice(0, 30)
Limited(sorted) ==
    SubSeq(sorted, 1, IF Len(sorted) < MaxNotifications THEN Len(sorted) ELSE MaxNotifications)

\* uniqueNotifications: the new notifications, then the carried-forward ones,
\* without the later entries of a key already met.
Candidates(prev, orders, currentSeen, currentStatuses, t) ==
    LET newNotifications == NewNotifications(orders, prev, currentSeen, currentStatuses, t)
        updatedPrev == UpdatedPrev(prev, orders)
        combined == newNotifications \o updatedPrev
    IN  UniqueNotifications(combined, {})

\* The list the updater returns.
Reconcile(prev, orders, currentSeen, currentStatuses, t) ==
    Limited(SortByTimestamp(Candidates(prev, orders, currentSeen, currentStatuses, t)))

(***************************************************************************)
(* localStorage serialisation.                                             *)
(***************************************************************************)
\* Date.prototype.toISOString, as JSON.stringify applies it to a timestamp
toISOString(ms) == << "ISO", ms >>

\* localStorage.getItem(key): null for a key never written, else the string written.
Missing == << >>
Stored(json) == << json >>

\* JSON.stringify(newNotifications)
StringifyNotifications(list) ==
    [ i \in DOMAIN list |-> [ list[i] EXCEPT !.timestamp = toISOString(list[i].timestamp) ] ]

\* JSON.stringify(Array.from(seen))
StringifySeen(seen) == seen

\* JSON.stringify(Array.from(statuses.entries()))
StringifyStatuses(statuses) == { << key, statuses[key] >> : key \in DOMAIN statuses }

\* localStorage.setItem for the keys an updater writes; Missing for a key it leaves.
NoWrite == [ notifications |-> Missing, seen |-> Missing, statuses |-> Missing ]

Write(store, w) ==
    [ notifications |-> IF w.notifications # Missing THEN w.notifications
                        ELSE store.notifications,
      seen |-> IF w.seen # Missing THEN w.seen ELSE store.seen,
      statuses |-> IF w.statuses # Missing THEN w.statuses ELSE store.statuses ]

RECURSIVE WriteAll(_, _)
WriteAll(store, writes) ==
    IF Len(writes) = 0 THEN store
    ELSE WriteAll(Write(store, Head(writes)), Tail(writes))

(***************************************************************************)
(* State.                                                                  *)
(***************************************************************************)
VARIABLES
    now,                    \* Date.now()
    notifications,          \* state hook: value after the updates dispatched so far
    seenOrderIds,           \* state hook: value after the updates dispatched so far
    lastOrderStatuses,      \* state hook: value after the updates dispatched so far
    seenOrderIdsRef,        \* seenOrderIdsRef.current
    lastOrderStatusesRef,   \* lastOrderStatusesRef.current
    closureSeenOrderIds,    \* seenOrderIds captured by the markAsRead callback
    storage,                \* the three localStorage entries
    unsaved,                \* writes of the queued updaters that have not run yet
    inFlight,               \* getOrders promises not yet settled
    overtaken,              \* those of them requested before a fetch that has resolved
    batch,                  \* updates dispatched since the last commit
    passes,                 \* fetches resolved so far
    lastOp,                 \* history: the last operation that changed the engine's state
    rejected,               \* whether a refreshNotifications() promise ended rejected
    scenario,               \* history: progress along the three-pass scenario
    lastFeed,               \* history: the orders of the feed resolved last
    late,                   \* history: that feed answered an overtaken fetch
    retry                   \* history: "due" once a fetch has failed, "started" once a
                            \* pass has been started after that, "none" otherwise

vars == << now, notifications, seenOrderIds, lastOrderStatuses, seenOrderIdsRef,
           lastOrderStatusesRef, closureSeenOrderIds, storage, unsaved, inFlight, batch,
           overtaken, passes, lastOp, rejected, scenario, lastFeed, late, retry >>

\* What React holds and what localStorage holds.
engine == << notifications, seenOrderIds, lastOrderStatuses, seenOrderIdsRef,
             lastOrderStatusesRef, closureSeenOrderIds, storage, unsaved >>

EmptyMap == [ key \in {} |-> Undefined ]

\* The feeds of the scenario: order 1 pending, then delivered, then no order.
ScenarioFeeds ==
    << << [ id |-> 1, status_text |-> "En attente", updated_at |-> UpdatedAt("En attente") ] >>,
       << [ id |-> 1, status_text |-> "Livré", updated_at |-> UpdatedAt("Livré") ] >>,
       << >> >>

ScenarioAfterPass(step, orders) ==
    IF step = "start" /\ orders = ScenarioFeeds[1] THEN "pass1"
    ELSE IF step = "pass1" /\ orders = ScenarioFeeds[2] THEN "pass2"
    ELSE IF step = "pass2" /\ orders = ScenarioFeeds[3] THEN "pass3"
    ELSE "off"

\* First session: nothing stored, the mount effects have run and the first
\* refreshNotifications() awaits its fetch.
Init ==
    /\ now = 1
    /\ notifications = << >>
    /\ seenOrderIds = {}
    /\ lastOrderStatuses = EmptyMap
    /\ seenOrderIdsRef = {}
    /\ lastOrderStatusesRef = EmptyMap
    /\ closureSeenOrderIds = {}
    /\ storage = [ notifications |-> Missing, seen |-> Missing, statuses |-> Missing ]
    /\ unsaved = << >>
    /\ inFlight = 1
    /\ batch = 0
    /\ passes = 0
    /\ lastOp = "mount"
    /\ rejected = FALSE
    /\ scenario = "start"
    /\ overtaken = 0
    /\ lastFeed = {}
    /\ late = FALSE
    /\ retry = "none"

(***************************************************************************)
(* A later session: the load effect reads what is stored.                  *)
(***************************************************************************)
\* A stored string that JSON.parse rejects.
Corrupt == << "{", "SyntaxError" >>

\* Whether JSON.parse(stored) returns.
Parses(entry) == Len(entry) = 1

\* new Date(n.timestamp) on the ISO string of a stored notification
newDate(iso) == iso[2]

\* parsed.map((n) => ({ ...n, timestamp: new Date(n.timestamp) }))
ParseNotifications(json) ==
    [ i \in DOMAIN json |-> [ json[i] EXCEPT !.timestamp = newDate(json[i].timestamp) ] ]

\* new Set<string>(parsed)
ParseSeen(json) == json

\* new Map<string, string>(parsed)
ParseStatuses(json) ==
    [ key \in { pair[1] : pair \in json } |->
        (CHOOSE pair \in json : pair[1] = key)[2] ]

\* Faulty variant: a load that restores nothing.
LoadNothing(store) ==
    [ notifications |-> << >>, seenOrderIds |-> {}, lastOrderStatuses |-> EmptyMap ]

\* The load effect: the three entries are read and parsed one after the other
\* inside one try block, so the first entry that does not parse ends the load
\* and the states not yet set keep their initial values.
Load(store) ==
    LET none == [ notifications |-> << >>, seenOrderIds |-> {},
                  lastOrderStatuses |-> EmptyMap ]
        afterNotifications ==
            IF store.notifications = Missing THEN none
            ELSE [ none EXCEPT
                     !.notifications = ParseNotifications(store.notifications[1]) ]
        afterSeen ==
            IF store.seen = Missing THEN afterNotifications
            ELSE [ afterNotifications EXCEPT !.seenOrderIds = ParseSeen(store.seen[1]) ]
        afterStatuses ==
            IF store.statuses = Missing THEN afterSeen
            ELSE [ afterSeen EXCEPT
                     !.lastOrderStatuses = ParseStatuses(store.statuses[1]) ]
    IN  IF store.notifications # Missing /\ ~Parses(store.notifications) THEN none
        ELSE IF store.seen # Missing /\ ~Parses(store.seen) THEN afterNotifications
        ELSE IF store.statuses # Missing /\ ~Parses(store.statuses) THEN afterSeen
        ELSE afterStatuses

\* What an earlier session has left: the new_order notification of order 1,
\* pending, unread or acknowledged.
StoredNotification(isRead) ==
    [ id |-> "new-1-0", orderId |-> 1, type |-> "new_order",
      message |-> "a passé une nouvelle commande", status |-> "En attente",
      previousStatus |-> Undefined, timestamp |-> CreatedAt(1),
      isRead |-> isRead, isNew |-> ~isRead ]

StoredSessions ==
    { [ notifications |-> Stored(StringifyNotifications(<< StoredNotification(isRead) >>)),
        seen |-> Stored(StringifySeen(IF isRead THEN {"1"} ELSE {})),
        statuses |-> Stored(StringifyStatuses([ key \in {"1"} |-> "En attente" ])) ]
      : isRead \in BOOLEAN }

\* Each entry is the one of the earlier session, or missing, or corrupt.
LoadStores ==
    UNION { { [ notifications |-> n, seen |-> e, statuses |-> l ] :
                n \in { Missing, Corrupt, session.notifications },
                e \in { Missing, Corrupt, session.seen },
                l \in { Missing, Corrupt, session.statuses } }
            : session \in StoredSessions }

\* The mount effects have run over the stored entries, React has committed the
\* loaded states and the first refreshNotifications() awaits its fetch.
InitLoad ==
    /\ now = 1
    /\ storage \in LoadStores
    /\ notifications = Load(storage).notifications
    /\ seenOrderIds = Load(storage).seenOrderIds
    /\ lastOrderStatuses = Load(storage).lastOrderStatuses
    /\ seenOrderIdsRef = seenOrderIds
    /\ lastOrderStatusesRef = lastOrderStatuses
    /\ closureSeenOrderIds = seenOrderIds
    /\ unsaved = << >>
    /\ inFlight = 1
    /\ batch = 0
    /\ passes = 0
    /\ lastOp = "mount"
    /\ rejected = FALSE
    /\ scenario = "off"
    /\ overtaken = 0
    /\ lastFeed = {}
    /\ late = FALSE
    /\ retry = "none"

(***************************************************************************)
(* Operations.                                                             *)
(***************************************************************************)
\* The localStorage writes of an updater function.  React runs a queued updater
\* while it renders; it may run the updater as soon as it is dispatched (eager)
\* when no other update is queued.
SaveInUpdater(w, eager) ==
    /\ eager => batch = 0
    /\ IF eager
       THEN storage' = Write(storage, w) /\ UNCHANGED unsaved
       ELSE unsaved' = Append(unsaved, w) /\ UNCHANGED storage

\* refreshNotifications() is called (interval tick or dropdown opened) and
\* suspends at await orderService.getOrders(1).
StartRefreshWithin(maxInFlight) ==
    /\ inFlight < maxInFlight
    /\ inFlight' = inFlight + 1
    /\ retry' = IF retry = "due" THEN "started" ELSE retry
    /\ UNCHANGED << now, engine, overtaken, batch, passes, lastOp, rejected, scenario,
                    lastFeed, late >>

\* Faulty variant: the polling stops once a fetch has failed.
StartRefreshStopsAfterFailure == retry # "due" /\ StartRefreshWithin(MaxInFlight)

StartRefresh == StartRefreshWithin(MaxInFlight)

\* One of the pending fetches settles.  The fetches are not ordered among
\* themselves: it is one of the overtaken ones (k = 0) or the k-th oldest of the
\* others, and when it resolves the k - 1 fetches requested before it are
\* overtaken.
Settle(resolves) ==
    \E k \in 0..(inFlight - overtaken) :
        /\ k = 0 => overtaken > 0
        /\ overtaken' = IF k = 0 THEN overtaken - 1
                        ELSE IF resolves THEN overtaken + (k - 1)
                        ELSE overtaken
        /\ late' = IF resolves THEN k = 0 ELSE late

\* The orders of a feed, as the history keeps them.
FeedOrders(orders) ==
    { [ id |-> orders[i].id, status_text |-> orders[i].status_text ] : i \in DOMAIN orders }

\* Faulty variant: the statuses of the feed are merged into the recorded ones.
ApplyFeedMerges(orders, eager) ==
    IF Len(orders) = 0
       THEN /\ notifications' = << >>
            /\ storage' = [ storage EXCEPT !.notifications = Stored(StringifyNotifications(<< >>)) ]
            /\ UNCHANGED << lastOrderStatuses, unsaved >>
       ELSE LET limited == Reconcile(notifications, orders, seenOrderIdsRef,
                                     lastOrderStatusesRef, now)
                observed == UpdatedStatuses(orders)
                updatedStatuses ==
                    [ key \in DOMAIN lastOrderStatuses \cup DOMAIN observed |->
                        IF key \in DOMAIN observed THEN observed[key]
                        ELSE lastOrderStatuses[key] ]
            IN  /\ notifications' = limited
                /\ lastOrderStatuses' = updatedStatuses
                /\ SaveInUpdater([ NoWrite EXCEPT
                                     !.statuses = Stored(StringifyStatuses(updatedStatuses)),
                                     !.notifications = Stored(StringifyNotifications(limited)) ],
                                 eager)

\* Faulty variant: an empty feed also clears the recorded statuses.
ApplyFeedResetsOnEmpty(orders, eager) ==
    IF Len(orders) = 0
       THEN /\ notifications' = << >>
            /\ lastOrderStatuses' = EmptyMap
            /\ storage' = [ storage EXCEPT
                              !.notifications = Stored(StringifyNotifications(<< >>)),
                              !.statuses = Stored(StringifyStatuses(EmptyMap)) ]
            /\ UNCHANGED unsaved
       ELSE LET limited == Reconcile(notifications, orders, seenOrderIdsRef,
                                     lastOrderStatusesRef, now)
                updatedStatuses == UpdatedStatuses(orders)
            IN  /\ notifications' = limited
                /\ lastOrderStatuses' = updatedStatuses
                /\ SaveInUpdater([ NoWrite EXCEPT
                                     !.statuses = Stored(StringifyStatuses(updatedStatuses)),
                                     !.notifications = Stored(StringifyNotifications(limited)) ],
                                 eager)

\* What refreshNotifications does with the feed once the fetch has resolved.
ApplyFeed(orders, eager) ==
    IF Len(orders) = 0
       THEN /\ notifications' = << >>
            /\ storage' = [ storage EXCEPT !.notifications = Stored(StringifyNotifications(<< >>)) ]
            /\ UNCHANGED << lastOrderStatuses, unsaved >>
       ELSE LET limited == Reconcile(notifications, orders, seenOrderIdsRef,
                                     lastOrderStatusesRef, now)
                updatedStatuses == UpdatedStatuses(orders)
            IN  /\ notifications' = limited
                /\ lastOrderStatuses' = updatedStatuses
                /\ SaveInUpdater([ NoWrite EXCEPT
                                     !.statuses = Stored(StringifyStatuses(updatedStatuses)),
                                     !.notifications = Stored(StringifyNotifications(limited)) ],
                                 eager)

\* Faulty variant: the answer of an overtaken fetch is dropped.
ResolveFetchInOrder(orders, eager, maxPasses) ==
    /\ inFlight > 0
    /\ batch < MaxBatch
    /\ passes < maxPasses
    /\ passes' = passes + 1
    /\ inFlight' = inFlight - 1
    /\ lastOp' = IF Len(orders) = 0 THEN "empty" ELSE "pass"
    /\ scenario' = ScenarioAfterPass(scenario, orders)
    /\ lastFeed' = FeedOrders(orders)
    /\ retry' = IF retry = "started" THEN "none" ELSE retry
    /\ Settle(TRUE)
    /\ IF late'
       THEN UNCHANGED << notifications, lastOrderStatuses, storage, unsaved, batch >>
       ELSE batch' = batch + 1 /\ ApplyFeed(orders, eager)
    /\ UNCHANGED << now, seenOrderIds, seenOrderIdsRef, lastOrderStatusesRef,
                    closureSeenOrderIds, rejected >>

\* The fetch resolves with the feed orders and refreshNotifications runs to its
\* end; maxPasses bounds the number of fetches that resolve.
ResolveFetchWithin(orders, eager, maxPasses) ==
    /\ inFlight > 0
    /\ batch < MaxBatch
    /\ passes < maxPasses
    /\ passes' = passes + 1
    /\ inFlight' = inFlight - 1
    /\ batch' = batch + 1
    /\ lastOp' = IF Len(orders) = 0 THEN "empty" ELSE "pass"
    /\ scenario' = ScenarioAfterPass(scenario, orders)
    /\ lastFeed' = FeedOrders(orders)
    /\ retry' = IF retry = "started" THEN "none" ELSE retry
    /\ Settle(TRUE)
    /\ ApplyFeed(orders, eager)
    /\ UNCHANGED << now, seenOrderIds, seenOrderIdsRef, lastOrderStatusesRef,
                    closureSeenOrderIds, rejected >>

ResolveFetch(orders, eager) == ResolveFetchWithin(orders, eager, MaxPasses)

\* Faulty variant: a failed fetch is handled like an empty feed.
FailFetchClears ==
    /\ inFlight > 0
    /\ inFlight' = inFlight - 1
    /\ rejected' = rejected
    /\ notifications' = << >>
    /\ storage' = [ storage EXCEPT !.notifications = Stored(StringifyNotifications(<< >>)) ]
    /\ retry' = "due"
    /\ Settle(FALSE)
    /\ UNCHANGED << now, seenOrderIds, lastOrderStatuses, seenOrderIdsRef,
                    lastOrderStatusesRef, closureSeenOrderIds, unsaved, batch, passes,
                    lastOp, scenario, lastFeed >>

\* The fetch rejects: the catch block logs the error and the pass ends; the
\* promise of refreshNotifications is fulfilled.
FailFetch ==
    /\ inFlight > 0
    /\ inFlight' = inFlight - 1
    /\ LET caught == TRUE   \* the catch clause handles the error and does not rethrow
       IN  rejected' = (rejected \/ ~caught)
    /\ retry' = "due"
    /\ Settle(FALSE)
    /\ UNCHANGED << now, engine, batch, passes, lastOp, scenario, lastFeed >>

NotificationIds == { notifications[i].id : i \in DOMAIN notifications }

\* The Date.now() that ends a notification id.
SynthesizedAt(id) ==
    CHOOSE t \in 0..MaxNow :
        SubSeq(id, Len(id) - Len(String(t)), Len(id)) = "-" \o String(t)

\* Faulty variant: a read notification still counts as new.
MarkReadKeepsNew(n) == [ n EXCEPT !.isRead = TRUE ]

\* Faulty variant: the click toggles the read flag.
MarkReadToggles(n) == [ n EXCEPT !.isRead = ~n.isRead, !.isNew = FALSE ]

MarkRead(n) == [ n EXCEPT !.isRead = TRUE, !.isNew = FALSE ]

\* The names under which the history records the calls of markAsRead and
\* markAllAsRead: the call, its argument, and whether the call before it was
\* the same one.
MarkOp(notificationId) == "markAsRead " \o notificationId

MarkAgainOp(notificationId) == MarkOp(notificationId) \o " again"

MarkAllOp == "markAllAsRead"

\* markAsRead(notificationId).  The operator acts on a notification at a later
\* millisecond than the one in which it was synthesized.
MarkAsRead(notificationId, eager) ==
    /\ batch < MaxBatch
    /\ notificationId \in NotificationIds => SynthesizedAt(notificationId) < now
    /\ batch' = batch + 1
    /\ lastOp' = IF lastOp \in { MarkOp(notificationId), MarkAgainOp(notificationId) }
                 THEN MarkAgainOp(notificationId)
                 ELSE MarkOp(notificationId)
    /\ scenario' = "off"
    /\ LET prev == notifications
           updated == [ i \in DOMAIN prev |->
                          IF prev[i].id = notificationId THEN MarkRead(prev[i]) ELSE prev[i] ]
           found == { i \in DOMAIN prev : prev[i].id = notificationId }
       IN  /\ notifications' = updated
           /\ IF found # {}
              THEN LET newSeen == closureSeenOrderIds \cup { String(prev[Min(found)].orderId) }
                   IN  /\ seenOrderIds' = newSeen
                       /\ SaveInUpdater([ NoWrite EXCEPT
                                            !.notifications = Stored(StringifyNotifications(updated)),
                                            !.seen = Stored(StringifySeen(newSeen)) ],
                                        eager)
              ELSE /\ UNCHANGED seenOrderIds
                   /\ SaveInUpdater([ NoWrite EXCEPT
                                        !.notifications = Stored(StringifyNotifications(updated)) ],
                                    eager)
    /\ UNCHANGED << now, lastOrderStatuses, seenOrderIdsRef, lastOrderStatusesRef,
                    closureSeenOrderIds, inFlight, overtaken, passes, rejected, lastFeed,
                    late, retry >>

\* The derived values of the context (unreadCount, hasNewNotifications).
unreadCount(list) == Cardinality({ i \in DOMAIN list : ~list[i].isRead })

hasNewNotifications(list) == \E i \in DOMAIN list : list[i].isNew /\ ~list[i].isRead

\* markAllAsRead()
MarkAllAsRead(eager) ==
    /\ batch < MaxBatch
    /\ \A id \in NotificationIds : SynthesizedAt(id) < now
    /\ batch' = batch + 1
    /\ lastOp' = MarkAllOp
    /\ scenario' = "off"
    /\ LET prev == notifications
           updated == [ i \in DOMAIN prev |-> MarkRead(prev[i]) ]
           allOrderIds == { String(prev[i].orderId) : i \in DOMAIN prev }
           newSeen == seenOrderIds \cup allOrderIds
       IN  /\ notifications' = updated
           /\ seenOrderIds' = newSeen
           /\ SaveInUpdater([ NoWrite EXCEPT
                                !.notifications = Stored(StringifyNotifications(updated)),
                                !.seen = Stored(StringifySeen(newSeen)) ],
                            eager)
    /\ UNCHANGED << now, lastOrderStatuses, seenOrderIdsRef, lastOrderStatusesRef,
                    closureSeenOrderIds, inFlight, overtaken, passes, rejected, lastFeed,
                    late, retry >>

\* React renders and commits: the queued updaters run in dispatch order, the
\* component re-renders, markAsRead is re-created over the new seenOrderIds and
\* the two sync effects update the refs.
Render ==
    /\ batch > 0
    /\ batch' = 0
    /\ storage' = WriteAll(storage, unsaved)
    /\ unsaved' = << >>
    /\ seenOrderIdsRef' = seenOrderIds
    /\ lastOrderStatusesRef' = lastOrderStatuses
    /\ closureSeenOrderIds' = seenOrderIds
    /\ UNCHANGED << now, notifications, seenOrderIds, lastOrderStatuses, inFlight,
                    overtaken, passes, lastOp, rejected, scenario, lastFeed, late, retry >>

\* Time passes.
Tick ==
    /\ now < MaxNow
    /\ now' = now + 1
    /\ UNCHANGED << engine, inFlight, overtaken, batch, passes, lastOp, rejected,
                    scenario, lastFeed, late, retry >>

Next ==
    \/ StartRefresh
    \/ \E orders \in Feeds, eager \in BOOLEAN : ResolveFetch(orders, eager)
    \/ FailFetch
    \/ \E notificationId \in NotificationIds \cup {"absent"}, eager \in BOOLEAN :
          MarkAsRead(notificationId, eager)
    \/ \E eager \in BOOLEAN : MarkAllAsRead(eager)
    \/ Render
    \/ Tick

Spec == Init /\ [][Next]_vars

\* The same engine followed over more passes, on the pages of fewer orders.
ResolveFetchDeep(orders, eager) == ResolveFetchWithin(orders, eager, MaxDeepPasses)

NextDeep ==
    \/ StartRefresh
    \/ \E orders \in DeepFeeds, eager \in BOOLEAN : ResolveFetchDeep(orders, eager)
    \/ FailFetch
    \/ \E notificationId \in NotificationIds \cup {"absent"}, eager \in BOOLEAN :
          MarkAsRead(notificationId, eager)
    \/ \E eager \in BOOLEAN : MarkAllAsRead(eager)
    \/ Render
    \/ Tick

SpecDeep == Init /\ [][NextDeep]_vars

\* The same engine under its timer: setInterval calls refreshNotifications
\* every 30 seconds for as long as the provider is mounted, so a pass that can
\* start does start.
SpecPoll == Init /\ [][NextDeep]_vars /\ WF_vars(StartRefresh)

\* The same engine with refreshNotifications called while a fetch is pending
\* (the interval fires, or the dropdown is opened, during a slow fetch).
StartRefreshOverlap == StartRefreshWithin(MaxOverlap)

ResolveFetchOverlap(orders, eager) == ResolveFetchWithin(orders, eager, MaxOverlapPasses)

NextOverlap ==
    \/ StartRefreshOverlap
    \/ \E orders \in DeepFeeds, eager \in BOOLEAN : ResolveFetchOverlap(orders, eager)
    \/ FailFetch
    \/ \E notificationId \in NotificationIds \cup {"absent"}, eager \in BOOLEAN :
          MarkAsRead(notificationId, eager)
    \/ \E eager \in BOOLEAN : MarkAllAsRead(eager)
    \/ Render
    \/ Tick

SpecOverlap == Init /\ [][NextOverlap]_vars

\* The same engine on labels in other spellings.
ResolveFetchLabels(orders, eager) == ResolveFetchWithin(orders, eager, MaxLabelPasses)

NextLabels ==
    \/ StartRefresh
    \/ \E orders \in LabelFeeds, eager \in BOOLEAN : ResolveFetchLabels(orders, eager)
    \/ FailFetch
    \/ \E notificationId \in NotificationIds \cup {"absent"}, eager \in BOOLEAN :
          MarkAsRead(notificationId, eager)
    \/ \E eager \in BOOLEAN : MarkAllAsRead(eager)
    \/ Render
    \/ Tick

SpecLabels == Init /\ [][NextLabels]_vars

\* The same engine in a later session, started over stored entries; a second
\* order may take the place of the first on the page.
LoadFeeds ==
    DeepFeeds \cup
    { << [ id |-> 2, status_text |-> "En attente", updated_at |-> UpdatedAt("En attente") ] >> }

ResolveFetchLoad(orders, eager) == ResolveFetchWithin(orders, eager, MaxLoadPasses)

NextLoad ==
    \/ StartRefresh
    \/ \E orders \in LoadFeeds, eager \in BOOLEAN : ResolveFetchLoad(orders, eager)
    \/ FailFetch
    \/ \E notificationId \in NotificationIds \cup {"absent"}, eager \in BOOLEAN :
          MarkAsRead(notificationId, eager)
    \/ \E eager \in BOOLEAN : MarkAllAsRead(eager)
    \/ Render
    \/ Tick

SpecLoad == InitLoad /\ [][NextLoad]_vars

\* The same engine on pages of more than 30 orders: the first n orders, all in
\* one status.
CapFeed(n, status_text) ==
    [ i \in 1..n |->
        [ id |-> i, status_text |-> status_text, updated_at |-> UpdatedAt(status_text) ] ]

CapFeeds ==
    { CapFeed(MaxCapOrders, s) : s \in StatusTexts }
      \cup { << >> }

ResolveFetchCap(orders, eager) == ResolveFetchWithin(orders, eager, MaxCapPasses)

\* The notification at the top of the dropdown.
NewestIds == { notifications[i].id : i \in DOMAIN notifications \cap {1} }

NextCap ==
    \/ StartRefresh
    \/ \E orders \in CapFeeds, eager \in BOOLEAN : ResolveFetchCap(orders, eager)
    \/ FailFetch
    \/ \E notificationId \in NewestIds \cup {"absent"}, eager \in BOOLEAN :
          MarkAsRead(notificationId, eager)
    \/ \E eager \in BOOLEAN : MarkAllAsRead(eager)
    \/ Render
    \/ Tick

SpecCap == Init /\ [][NextCap]_vars

(***************************************************************************)
(* Properties.                                                             *)
(***************************************************************************)
UnreadOf(list, orderId, types) ==
    { i \in DOMAIN list :
        list[i].orderId = orderId /\ ~list[i].isRead /\ list[i].type \in types }

\* C1: every order has at most one unread notification of type new_order or
\* delivered, the two types counted together.
C1_AtMostOneUnreadNewOrDelivered ==
    \A orderId \in OrderIds :
        Cardinality(UnreadOf(notifications, orderId, {"new_order", "delivered"})) <= 1

\* C8: for every order and every status there is at most one unread
\* status_change notification carrying that status.
C8_AtMostOneUnreadStatusChangePerStatus ==
    \A orderId \in OrderIds : \A status \in StatusTexts :
        Cardinality({ i \in UnreadOf(notifications, orderId, {"status_change"}) :
                        notifications[i].status = status }) <= 1

\* After three passes an order has two unread status_change notifications, one
\* per status.
C8_Witness ==
    \E orderId \in OrderIds :
        /\ Cardinality(UnreadOf(notifications, orderId, {"status_change"})) = 2
        /\ passes = 3

\* The orders of the feed of a pass that has just been applied, and their statuses.
IsDeliveredInFeed(statuses, orderId) ==
    String(orderId) \in DOMAIN statuses /\ isDeliveredOf[statuses[String(orderId)]]

OfOrder(list, orderId) == { i \in DOMAIN list : list[i].orderId = orderId }

\* C2: a pass that follows a pass with the same feed, with no mark-read in
\* between, leaves the notification list as it is.
C2_SameFeedTwiceIsIdempotent ==
    [][ ( /\ passes' = passes + 1
          /\ lastOp \in {"pass", "empty"}
          /\ lastOp' = lastOp
          /\ lastOrderStatuses' = lastOrderStatuses )
        => notifications' = notifications ]_vars

\* C3: a notification that is read stays read for as long as it is in the list.
C3_ReadStaysRead ==
    [][ \A i \in DOMAIN notifications : \A j \in DOMAIN notifications' :
          ( notifications[i].isRead /\ notifications'[j].id = notifications[i].id )
          => notifications'[j].isRead ]_vars

\* The last operation was a pass and a notification read before it is in the list.
C3_Witness ==
    /\ lastOp = "pass"
    /\ \E i \in DOMAIN notifications : notifications[i].isRead

\* C4: a pass that finds an order delivered while the list holds an unread
\* new_order notification of it leaves exactly one notification of that order,
\* of type delivered, with the id of the former new_order notification.
C4_UpgradeLeavesOneDelivered ==
    [][ \A orderId \in OrderIds :
          ( /\ passes' = passes + 1
            /\ lastOp' = "pass"
            /\ UnreadOf(notifications, orderId, {"new_order"}) # {}
            /\ IsDeliveredInFeed(lastOrderStatuses', orderId) )
          => /\ Cardinality(OfOrder(notifications', orderId)) = 1
             /\ \A j \in OfOrder(notifications', orderId) :
                  /\ notifications'[j].type = "delivered"
                  /\ notifications'[j].id =
                       notifications[Min(UnreadOf(notifications, orderId, {"new_order"}))].id
      ]_vars

\* C5: from the empty engine, the pass with order 1 pending yields one unread
\* new_order notification of order 1; the next pass, with order 1 delivered,
\* yields one notification of order 1, delivered, with the same id; the next
\* pass, with no order, yields no notification.
C5_ThreePassScenario ==
    [][ /\ scenario' = "pass1" =>
            /\ Len(notifications') = 1
            /\ notifications'[1].type = "new_order"
            /\ notifications'[1].orderId = 1
            /\ ~notifications'[1].isRead
        /\ (scenario = "pass1" /\ scenario' = "pass2") =>
            /\ Cardinality(OfOrder(notifications', 1)) = 1
            /\ \A j \in OfOrder(notifications', 1) :
                 /\ notifications'[j].type = "delivered"
                 /\ notifications'[j].id = notifications[1].id
        /\ scenario' = "pass3" => Len(notifications') = 0 ]_vars

\* The three passes of the scenario have been applied.
C5_Witness == scenario = "pass3"

\* C6: once a pass whose feed is empty has been applied and committed, the
\* notification list is empty, in memory and in storage.
C6_EmptyFeedClearsAll ==
    (lastOp = "empty" /\ batch = 0)
    => /\ notifications = << >>
       /\ storage.notifications = Stored(StringifyNotifications(<< >>))

\* C9: a fetch that fails changes neither the notifications, the seen set, the
\* last statuses nor the storage, and the promise is not rejected.
C9_FetchFailureIsNeutral ==
    [][ (inFlight' = inFlight - 1 /\ passes' = passes)
        => /\ UNCHANGED << notifications, seenOrderIds, lastOrderStatuses, storage >>
           /\ ~rejected' ]_vars

\* The first fetch has failed.
C9_Witness == inFlight = 0 /\ passes = 0 /\ ~rejected

\* C10: an order id of the seen set, in memory or in storage, is in it in every
\* later state.
C10_SeenSetIsMonotone ==
    [][ /\ seenOrderIds \subseteq seenOrderIds'
        /\ storage.seen # Missing =>
              storage'.seen # Missing /\ storage.seen[1] \subseteq storage'.seen[1] ]_vars

\* C7: a pass leaves at most 30 notifications; when more than 30 candidates
\* remain after deduplication, exactly 30 of them are kept and no dropped
\* candidate is newer than a kept one.
ElementsOf(list) == { list[i] : i \in DOMAIN list }

C7_CapAtThirty ==
    [][ /\ Len(notifications') <= MaxNotifications
        /\ \A orders \in CapFeeds :
             ( /\ passes' = passes + 1
               /\ lastOp' = "pass"
               /\ UpdatedStatuses(orders) = lastOrderStatuses' )
             => LET candidates == Candidates(notifications, orders, seenOrderIdsRef,
                                             lastOrderStatusesRef, now)
                    kept == ElementsOf(notifications')
                    dropped == ElementsOf(candidates) \ kept
                IN  Len(candidates) > MaxNotifications =>
                      /\ Len(notifications') = MaxNotifications
                      /\ kept \subseteq ElementsOf(candidates)
                      /\ \A d \in dropped : \A k \in kept : d.timestamp <= k.timestamp
      ]_vars

\* A pass over more than 30 orders has left 30 notifications.
C7_Witness ==
    /\ lastOp = "pass"
    /\ Cardinality(DOMAIN lastOrderStatuses) > MaxNotifications
    /\ Len(notifications) = MaxNotifications

\* What localStorage holds once the updaters queued so far have run.
Durable(store, writes) == WriteAll(store, writes)

\* C11: markAsRead(id) on a notification of the list marks exactly that
\* notification read and not new, adds its order id to the seen set, persists
\* the list and the seen set, and leaves every other notification, the order
\* and the length of the list and the recorded statuses unchanged.
C11_MarkAsReadFrame ==
    [][ \A id \in NotificationIds :
          ( lastOp' \in { MarkOp(id), MarkAgainOp(id) } /\ batch' = batch + 1 )
          => /\ Len(notifications') = Len(notifications)
             /\ \E i \in DOMAIN notifications :
                  /\ notifications[i].id = id
                  /\ notifications'[i] = [ notifications[i] EXCEPT !.isRead = TRUE,
                                                                   !.isNew = FALSE ]
                  /\ seenOrderIds' = seenOrderIds \cup { String(notifications[i].orderId) }
                  /\ \A j \in DOMAIN notifications \ {i} :
                       notifications'[j] = notifications[j]
             /\ lastOrderStatuses' = lastOrderStatuses
             /\ Durable(storage', unsaved').notifications
                  = Stored(StringifyNotifications(notifications'))
             /\ Durable(storage', unsaved').seen = Stored(StringifySeen(seenOrderIds'))
      ]_vars

\* C12: markAsRead is idempotent: a second markAsRead(id) right after the
\* first leaves the list and the seen set as the first call left them.
C12_MarkAsReadIdempotent ==
    [][ \A id \in NotificationIds \cup {"absent"} :
          ( lastOp' = MarkAgainOp(id) /\ batch' = batch + 1 )
          => /\ notifications' = notifications
             /\ seenOrderIds' = seenOrderIds
      ]_vars

\* markAsRead has been called twice in a row on a notification of the list.
C12_Witness ==
    \E i \in DOMAIN notifications :
        /\ lastOp = MarkAgainOp(notifications[i].id)
        /\ notifications[i].isRead
        /\ String(notifications[i].orderId) \in seenOrderIds

\* C13: after markAllAsRead every notification is read and not new, so
\* unreadCount is 0 and hasNewNotifications is false, and the seen set is the
\* previous seen set united with the order ids of all notifications.
C13_MarkAllAsRead ==
    [][ ( lastOp' = MarkAllOp /\ batch' = batch + 1 )
        => /\ Len(notifications') = Len(notifications)
           /\ \A i \in DOMAIN notifications' :
                notifications'[i].isRead /\ ~notifications'[i].isNew
           /\ unreadCount(notifications') = 0
           /\ ~hasNewNotifications(notifications')
           /\ seenOrderIds' = seenOrderIds \cup
                { String(notifications[i].orderId) : i \in DOMAIN notifications }
      ]_vars

\* markAllAsRead has run on a list of several notifications, after an order
\* had been acknowledged on its own.
C13_Witness ==
    /\ lastOp = MarkAllOp
    /\ Len(notifications) > 1
    /\ unreadCount(notifications) = 0
    /\ \A i \in DOMAIN notifications : String(notifications[i].orderId) \in seenOrderIds
    /\ seenOrderIdsRef # {}
    /\ seenOrderIdsRef # seenOrderIds

\* C14: the recorded statuses are never pruned: an order id that has an entry
\* keeps an entry in every later state.
C14_StatusesNeverPruned ==
    [][ \A key \in DOMAIN lastOrderStatuses : key \in DOMAIN lastOrderStatuses' ]_vars

\* C14, amended: an order id that has an entry keeps it through every
\* operation except a pass over a non-empty feed that does not list the order;
\* such a pass removes the entry.
C14_StatusesPrunedByPassOnly ==
    [][ \A key \in DOMAIN lastOrderStatuses :
          key \in DOMAIN lastOrderStatuses'
            <=> ~ ( /\ passes' = passes + 1
                    /\ lastOp' = "pass"
                    /\ key \notin { String(o.id) : o \in lastFeed' } )
      ]_vars

\* A pass has removed the entry of an order that left the feed.
C14_Witness ==
    /\ lastOp = "pass"
    /\ batch > 0
    /\ \E key \in DOMAIN lastOrderStatusesRef :
         /\ key \notin DOMAIN lastOrderStatuses
         /\ key \notin { String(o.id) : o \in lastFeed }

\* C15: in every reachable state the list is ordered newest first: the
\* timestamps along the list never increase.
C15_NewestFirst ==
    \A i \in DOMAIN notifications : \A j \in DOMAIN notifications :
        i < j => notifications[i].timestamp >= notifications[j].timestamp

\* The list holds notifications of different timestamps, one of them read.
C15_Witness ==
    /\ Len(notifications) > 1
    /\ notifications[1].timestamp > notifications[Len(notifications)].timestamp
    /\ \E i \in DOMAIN notifications : notifications[i].isRead

\* What load() reads from a storage entry: the stored value, or the default
\* when the entry is missing.
Loaded(entry, default) == IF entry = Missing THEN Stored(default) ELSE entry

\* C16: after every completed reconcile, markAsRead and markAllAsRead the
\* persisted list equals the list in memory, the persisted seen ids equal
\* the seen set and the persisted status pairs equal the recorded statuses.
C16_PersistedEqualsMemory ==
    ( batch = 0 /\ lastOp # "mount" )
    => /\ Loaded(storage.notifications, StringifyNotifications(<< >>))
            = Stored(StringifyNotifications(notifications))
       /\ Loaded(storage.seen, StringifySeen({})) = Stored(StringifySeen(seenOrderIds))
       /\ Loaded(storage.statuses, StringifyStatuses(EmptyMap))
            = Stored(StringifyStatuses(lastOrderStatuses))

\* C17: no two notifications of the list share an id.
C17_IdsUnique ==
    \A i \in DOMAIN notifications : \A j \in DOMAIN notifications :
        notifications[i].id = notifications[j].id => i = j

C19_FullReplacement ==
    [][ ( passes' = passes + 1 /\ lastOp' = "pass" )
        => /\ DOMAIN lastOrderStatuses' = { String(o.id) : o \in lastFeed' }
           /\ \A o \in lastFeed' : lastOrderStatuses'[String(o.id)] = o.status_text
           /\ \A i \in DOMAIN notifications' :
                ( /\ notifications'[i].id \notin NotificationIds
                  /\ notifications'[i].previousStatus # Undefined )
                => notifications'[i].previousStatus
                     = MapGet(lastOrderStatuses, String(notifications'[i].orderId))
      ]_vars

\* C20: the passes are not serialized: a pass can start while the fetch of an
\* earlier pass is pending, and when the fetch started earlier resolves after
\* the one started later, the recorded statuses after both are those of the
\* feed of the fetch started earlier.
C20_LastWriterWins ==
    [][ ( passes' = passes + 1 /\ lastOp' = "pass" /\ late' )
        => /\ DOMAIN lastOrderStatuses' = { String(o.id) : o \in lastFeed' }
           /\ \A o \in lastFeed' : lastOrderStatuses'[String(o.id)] = o.status_text
      ]_vars

\* Two fetches were pending at once, the one started later has resolved and
\* React has rendered, and then the one started earlier has resolved with
\* other statuses, which are the recorded ones now.
C20_Witness ==
    /\ late
    /\ lastOp = "pass"
    /\ batch = 1
    /\ lastOrderStatusesRef # EmptyMap
    /\ lastOrderStatusesRef # lastOrderStatuses
    /\ \A o \in lastFeed : lastOrderStatuses[String(o.id)] = o.status_text

\* The fields of a notification that an upgrade rewrites.
Face(notif) == << notif.type, notif.message, notif.status >>

\* C21: a pass changes the type, message or status of a carried-forward
\* notification only if it is an unread new_order whose order is now
\* delivered; a read notification keeps its type, message and status through
\* every pass in which it survives.
C21_UpgradeOnlyUnread ==
    [][ ( passes' = passes + 1 /\ lastOp' = "pass" )
        => \A j \in DOMAIN notifications' :
             /\ notifications'[j].isRead
                => \E i \in DOMAIN notifications :
                     /\ notifications[i].id = notifications'[j].id
                     /\ notifications[i].isRead
                     /\ Face(notifications[i]) = Face(notifications'[j])
             /\ SynthesizedAt(notifications'[j].id) < now
                => \E i \in DOMAIN notifications :
                     /\ notifications[i].id = notifications'[j].id
                     /\ \/ Face(notifications[i]) = Face(notifications'[j])
                        \/ /\ ~notifications[i].isRead
                           /\ notifications[i].type = "new_order"
                           /\ notifications'[j].type = "delivered"
                           /\ isDeliveredOf[notifications'[j].status]
      ]_vars

\* C22: in every reachable state a notification has type delivered exactly
\* when its status label is of the delivered class (it contains "livré" or
\* "delivered", whatever the case of its letters); no new_order or
\* status_change notification carries a delivered status.
C22_TypeFollowsDelivered ==
    \A i \in DOMAIN notifications :
        (notifications[i].type = "delivered") <=> isDeliveredOf[notifications[i].status]

\* The list holds a delivered notification synthesized from the change of a
\* pending order to a delivered label written with capital letters.
C22_Witness ==
    \E i \in DOMAIN notifications :
        /\ notifications[i].type = "delivered"
        /\ notifications[i].status \in { "LIVRÉE", "Delivered" }
        /\ notifications[i].previousStatus = "En attente"

\* The notifications of list whose id was issued for a status change and
\* which were not in the list before.
SynthesizedStatusChanges(list, before) ==
    { j \in DOMAIN list :
        /\ SubSeq(list[j].id, 1, 7) = "status-"
        /\ \A i \in DOMAIN before : before[i].id # list[j].id }

\* C23: a pass synthesizes a status-change notification for an order only if
\* the order is in the seen set and the statuses recorded before the pass
\* hold an entry for it that differs from its current status.
C23_StatusChangePrecondition ==
    [][ ( passes' = passes + 1 /\ lastOp' = "pass" )
        => \A j \in SynthesizedStatusChanges(notifications', notifications) :
             LET orderId == String(notifications'[j].orderId)
             IN  /\ orderId \in seenOrderIds
                 /\ orderId \in DOMAIN lastOrderStatuses
                 /\ lastOrderStatuses[orderId] # notifications'[j].status
      ]_vars

\* C24: when the status of a seen order differs from the one recorded before
\* the pass, the list after the pass holds an unread notification of the order
\* with the current status; one that is newly synthesized reports the recorded
\* status as previousStatus, and none is synthesized when an unread
\* notification of the order already carries the current status.  (No list of
\* these specifications reaches the cap of 30.)
C24_StatusChangeDelivered ==
    [][ ( passes' = passes + 1 /\ lastOp' = "pass" )
        => \A o \in lastFeed' :
             LET orderId == String(o.id)
                 synthesized ==
                     { j \in SynthesizedStatusChanges(notifications', notifications) :
                         notifications'[j].orderId = o.id }
             IN  ( /\ orderId \in seenOrderIds
                   /\ orderId \in DOMAIN lastOrderStatuses
                   /\ lastOrderStatuses[orderId] # o.status_text )
                 => /\ \E j \in DOMAIN notifications' :
                         /\ notifications'[j].orderId = o.id
                         /\ ~notifications'[j].isRead
                         /\ notifications'[j].status = o.status_text
                    /\ \A j \in synthesized :
                         notifications'[j].previousStatus = lastOrderStatuses[orderId]
                    /\ ( \E i \in DOMAIN notifications :
                           /\ notifications[i].orderId = o.id
                           /\ ~notifications[i].isRead
                           /\ notifications[i].status = o.status_text )
                       => synthesized = {}
      ]_vars

\* C25: after every pass over a non-empty feed the order of every notification
\* of the list is an order of that feed; the notifications of the orders that
\* have left the feed are removed, read or unread.
C25_OnlyOrdersOfTheFeed ==
    [][ ( passes' = passes + 1 /\ lastOp' = "pass" )
        => \A j \in DOMAIN notifications' :
             notifications'[j].orderId \in { o.id : o \in lastFeed' }
      ]_vars

\* A pass has removed the notifications of an order that left the feed, a
\* read one among them, and kept those of the order that stayed.
C25_Witness ==
    /\ lastOp = "pass"
    /\ batch = 1
    /\ notifications # << >>
    /\ \E key \in seenOrderIdsRef :
         /\ key \in DOMAIN lastOrderStatusesRef
         /\ key \notin { String(o.id) : o \in lastFeed }
         /\ \A j \in DOMAIN notifications : String(notifications[j].orderId) # key
    /\ \E j \in DOMAIN notifications : SynthesizedAt(notifications[j].id) < now

\* The composite key of the claim.
CompositeKey(notif) ==
    IF notif.type \in { "new_order", "delivered" }
    THEN << notif.orderId, notif.type >>
    ELSE << notif.orderId, notif.type, notif.status >>

\* C26: after every pass no two notifications of the list share the key
\* (orderId, type) for new_order and delivered or (orderId, type, status) for
\* status_change, and where a newly synthesized notification and a
\* carried-forward one have the same key, the survivor is the new one.
C26_CompositeKeyDedupe ==
    [][ ( passes' = passes + 1 /\ lastOp' = "pass" )
        => /\ \A i \in DOMAIN notifications' : \A j \in DOMAIN notifications' :
                CompositeKey(notifications'[i]) = CompositeKey(notifications'[j]) => i = j
           /\ \A orders \in Feeds :
                FeedOrders(orders) = lastFeed'
                => LET new == NewNotifications(orders, notifications, seenOrderIdsRef,
                                               lastOrderStatusesRef, now)
                       carried == UpdatedPrev(notifications, orders)
                   IN  \A n \in DOMAIN new : \A c \in DOMAIN carried :
                         CompositeKey(new[n]) = CompositeKey(carried[c])
                         => \E j \in DOMAIN notifications' :
                              /\ CompositeKey(notifications'[j]) = CompositeKey(new[n])
                              /\ notifications'[j] \in ElementsOf(new)
      ]_vars

\* A pass has synthesized a notification with the key of a different
\* carried-forward one, and the list holds the new one.
C26_Witness ==
    /\ lastOp = "pass"
    /\ batch = 1
    /\ \E j \in DOMAIN notifications :
         /\ notifications[j].type = "delivered"
         /\ SubSeq(notifications[j].id, 1, 7) = "status-"
         /\ \A i \in DOMAIN notifications :
              notifications[i].orderId = notifications[j].orderId => i = j
         /\ String(notifications[j].orderId) \in seenOrderIdsRef

\* Whether a storage entry holds a value that parses.
Valid(entry) == entry # Missing /\ Parses(entry)

\* C27: at engine start, whatever is missing, valid or corrupt under the three
\* storage keys, each structure whose entry is missing or corrupt starts at
\* its empty default and each structure whose entry is valid is restored
\* from it.
C27_LoadToleratesBadStorage ==
    lastOp = "mount"
    => /\ ~rejected
       /\ notifications = IF Valid(storage.notifications)
                          THEN ParseNotifications(storage.notifications[1]) ELSE << >>
       /\ seenOrderIds = IF Valid(storage.seen) THEN ParseSeen(storage.seen[1]) ELSE {}
       /\ lastOrderStatuses = IF Valid(storage.statuses)
                              THEN ParseStatuses(storage.statuses[1]) ELSE EmptyMap

\* C28: once markAsRead has acknowledged a notification of an order, no later
\* state holds an unread notification of that order while the passes keep the
\* order at the same status, whether a fetch was in flight when markAsRead
\* ran or a second markAsRead was issued before the re-render.
C28_AcknowledgedNotReannounced ==
    [][ ( /\ passes' = passes + 1
          /\ lastOp' = "pass"
          /\ lastFeed' = lastFeed )
        => \A o \in lastFeed :
             ( /\ String(o.id) \in seenOrderIds
               /\ \A i \in DOMAIN notifications :
                    notifications[i].orderId = o.id => notifications[i].isRead )
             => \A j \in DOMAIN notifications' :
                  notifications'[j].orderId = o.id => notifications'[j].isRead
      ]_vars

\* C29: in every reachable state every notification is new exactly when it
\* is unread, so that hasNewNotifications is true exactly when unreadCount is
\* above 0.
C29_IsNewMirrorsUnread ==
    /\ \A i \in DOMAIN notifications : notifications[i].isNew = ~notifications[i].isRead
    /\ hasNewNotifications(notifications) <=> unreadCount(notifications) > 0

\* The list holds a read and an unread notification, the unread one carried
\* forward and upgraded by a pass.
C29_Witness ==
    /\ \E i \in DOMAIN notifications : notifications[i].isRead
    /\ \E i \in DOMAIN notifications :
         /\ ~notifications[i].isRead
         /\ notifications[i].type = "delivered"
         /\ SynthesizedAt(notifications[i].id) < now
    /\ hasNewNotifications(notifications)

\* C30: no pass, successful, over an empty feed or failed, adds an id to the
\* seen set or removes one, and a pass over an empty feed or with a failed
\* fetch leaves the recorded statuses unchanged, in memory and in storage.
C30_ReconcileFrame ==
    [][ /\ ( passes' = passes + 1 \/ inFlight' = inFlight - 1 )
           => seenOrderIds' = seenOrderIds
        /\ ( \/ passes' = passes + 1 /\ lastOp' = "empty"
             \/ passes' = passes /\ inFlight' = inFlight - 1 )
           => /\ lastOrderStatuses' = lastOrderStatuses
              /\ storage'.statuses = storage.statuses
              /\ Durable(storage', unsaved').statuses = Durable(storage, unsaved).statuses
      ]_vars

\* A pass over an empty feed has run while an order was in the seen set and
\* had a recorded status.
C30_Witness ==
    /\ lastOp = "empty"
    /\ seenOrderIds # {}
    /\ lastOrderStatuses # EmptyMap
    /\ notifications = << >>

====
